---- MODULE Spec2Model ----
(***************************************************************************)
(* Knot-vector utilities (src/nurbs/utilities.py) and the split /          *)
(* decompose operations (src/geomdl/operations.py).                        *)
(*                                                                         *)
(* Knots are reals in the code.  Here a knot is an integer number of grid  *)
(* units; one grid unit is tol / GridPerTol, so the default tolerance      *)
(* 0.001 is GridPerTol units and 1.0 is InvTol * GridPerTol units.         *)
(* Values computed by division (basis functions, autogenerated knots) are  *)
(* exact rationals <<numerator, denominator>>.                             *)
(***************************************************************************)
EXTENDS Integers, Sequences, FiniteSets, TLC

VARIABLES pc, op, args, heap, old, ret, loc

vars == <<pc, op, args, heap, old, ret, loc>>

(***************************************************************************)
(* Bounds of the model and units                                           *)
(***************************************************************************)
GridPerTol == 2
InvTol == 1000
NearWidth == 1
MaxDegree == 3
MaxInterior == 2

Tol == GridPerTol
One == InvTol * GridPerTol
Half == One \div 2

(***************************************************************************)
(* Python list helpers                                                     *)
(***************************************************************************)
Abs(x) == IF x < 0 THEN -x ELSE x

Min2(a, b) == IF a < b THEN a ELSE b

Max2(a, b) == IF a > b THEN a ELSE b

SetMax(S) == CHOOSE x \in S : \A y \in S : y <= x

\* the position a Python slice bound i denotes in a list of length n
PyBound(i, n) == IF i < 0 THEN Max2(n + i, 0) ELSE Min2(i, n)

\* s[a:b] with 0-based Python bounds (negative bounds count from the end)
PySlice(s, a, b) == SubSeq(s, PyBound(a, Len(s)) + 1, PyBound(b, Len(s)))

\* s[a:]
PyFrom(s, a) == SubSeq(s, PyBound(a, Len(s)) + 1, Len(s))

\* s[i] with a 0-based index
At(s, i) == s[i + 1]

Rep(x, n) == [i \in 1..n |-> x]

Distinct(s) == {s[i] : i \in 1..Len(s)}

IsSorted(s) == \A i \in 1..(Len(s) - 1) : s[i] <= s[i + 1]

(***************************************************************************)
(* Inputs: clamped knot vectors on the grid                                *)
(***************************************************************************)
Near == 1..NearWidth

\* interior knot values: next to both ends and around the middle
InteriorValues == {d : d \in Near} \cup {One - d : d \in Near}
                  \cup {Half} \cup {Half - d : d \in Near} \cup {Half + d : d \in Near}

Params == {0, One} \cup InteriorValues

Count(x, s) == Cardinality({i \in 1..Len(s) : s[i] = x})

Interiors(degree) ==
    UNION {{s \in [1..n -> InteriorValues] :
              IsSorted(s) /\ \A i \in 1..n : Count(s[i], s) <= degree} : n \in 0..MaxInterior}

Clamped(degree, interior) == Rep(0, degree + 1) \o interior \o Rep(One, degree + 1)

Degrees == 1..MaxDegree

(***************************************************************************)
(* src/nurbs/utilities.py                                                  *)
(***************************************************************************)
find_multiplicity_exact(knot, knotvector, tol) ==
    Cardinality({i \in 1..Len(knotvector) : knot = knotvector[i]})

find_multiplicity(knot, knotvector, tol) ==
    Cardinality({i \in 1..Len(knotvector) : Abs(knot - knotvector[i]) <= tol})

(***************************************************************************)
(* Collaborators of split_curve that live outside src/: the span search it *)
(* is handed by default and the knot-insertion primitive of the shape.     *)
(***************************************************************************)
\* the index i with knotvector[i] <= knot < knotvector[i+1], searched linearly
find_span_linear(degree, knotvector, num_ctrlpts, knot) ==
    SetMax({-1} \cup {i \in 0..(num_ctrlpts - 1) : At(knotvector, i) <= knot})

\* the knot vector after u is inserted r times behind span index k
insert_knot_kv(knotvector, u, r, k) ==
    PySlice(knotvector, 0, k + 1) \o Rep(u, r) \o PyFrom(knotvector, k + 1)

\* which rows of the old control net survive an insertion of r knots at span k
\* (0-based new index i): the leading ones up to k - degree and the trailing
\* ones from k - s on, moved up by r; the rows between are recomputed
insert_knot_keeps(i, degree, k, s, r) ==
    IF r = 0 \/ i <= k - degree THEN i
    ELSE IF i >= k - s + r THEN i - r
    ELSE -1

\* insert_knot refuses a negative number of insertions with a ValueError
insert_knot_refuses(r) == r < 0

\* curve.insert_knot(u, r=r, check_r=False): control points are tokens, a
\* recomputed point is the negative of its 1-based position
insert_knot_curve(c, u, r) ==
    LET k == find_span_linear(c.degree, c.knotvector, Len(c.ctrlpts), u)
        s == find_multiplicity(u, c.knotvector, Tol)
    IN [c EXCEPT !.knotvector = insert_knot_kv(c.knotvector, u, r, k),
                 !.ctrlpts = [i \in 1..(Len(c.ctrlpts) + r) |->
                     LET o == insert_knot_keeps(i - 1, c.degree, k, s, r)
                     IN IF o >= 0 THEN c.ctrlpts[o + 1] ELSE -i]]

(***************************************************************************)
(* src/geomdl/operations.py: split_curve                                   *)
(***************************************************************************)
\* copy.deepcopy(obj): a new object with the same field values
deepcopy_alias(h, obj) == [heap |-> h, ref |-> obj]

deepcopy(h, obj) == [heap |-> Append(h, h[obj]), ref |-> Len(h) + 1]

\* the corner test: u == knotvector[0] or u == knotvector[-1]
on_corner(u, knotvector) ==
    u = At(knotvector, 0) \/ u = At(knotvector, Len(knotvector) - 1)

\* r = obj.degree - s
insertions(degree, s) == degree - s

\* curve1_kv = list(kv[0:knot_span]); curve1_kv.append(u)
first_kv_no_append(knotvector, knot_span, u) == PySlice(knotvector, 0, knot_span)

first_kv(knotvector, knot_span, u) == Append(PySlice(knotvector, 0, knot_span), u)

second_kv_keeps_knot(knotvector, knot_span, u, degree) ==
    Rep(u, degree + 1) \o PyFrom(knotvector, knot_span - 1)

\* curve2_kv = list(kv[knot_span:]); degree + 1 times insert(0, u)
second_kv(knotvector, knot_span, u, degree) ==
    Rep(u, degree + 1) \o PyFrom(knotvector, knot_span)

\* curve1_ctrlpts = P[0:ks + r]
first_ctrlpts(P, ks, r) == PySlice(P, 0, ks + r)

\* curve2_ctrlpts = P[ks + r - 1:]
second_ctrlpts_no_overlap(P, ks, r) == PyFrom(P, ks + r)

second_ctrlpts(P, ks, r) == PyFrom(P, ks + r - 1)

Curve(degree, knotvector, ctrlpts) ==
    [kind |-> "curve", degree |-> degree, knotvector |-> knotvector, ctrlpts |-> ctrlpts]

Raised(h, what, frame) == [status |-> what, heap |-> h, ret |-> <<>>, frame |-> frame]

split_curve(h, obj, u) ==
    LET c == h[obj] IN
    IF on_corner(u, c.knotvector)
    THEN Raised(h, "ValueError", [at |-> "corner"])
    ELSE
    LET ks == find_span_linear(c.degree, c.knotvector, Len(c.ctrlpts), u) - c.degree + 1
        s == find_multiplicity(u, c.knotvector, Tol)
        r == insertions(c.degree, s)
        cp == deepcopy(h, obj)
        temp_obj == cp.ref
    IN
    IF insert_knot_refuses(r)
    THEN Raised(cp.heap, "ValueError", [at |-> "insert_knot", temp_obj |-> temp_obj, s |-> s, r |-> r])
    ELSE
    LET h1 == [cp.heap EXCEPT ![temp_obj] = insert_knot_curve(@, u, r)]
        t == h1[temp_obj]
        knot_span == find_span_linear(t.degree, t.knotvector, Len(t.ctrlpts), u) + 1
        curve1_kv == first_kv(t.knotvector, knot_span, u)
        curve2_kv == second_kv(t.knotvector, knot_span, u, t.degree)
        curve1_ctrlpts == first_ctrlpts(t.ctrlpts, ks, r)
        curve2_ctrlpts == second_ctrlpts(t.ctrlpts, ks, r)
        curve1 == Curve(t.degree, curve1_kv, curve1_ctrlpts)
        curve2 == Curve(t.degree, curve2_kv, curve2_ctrlpts)
    IN [status |-> "ok",
        heap |-> h1 \o <<curve1, curve2>>,
        ret |-> <<Len(h1) + 1, Len(h1) + 2>>,
        frame |-> [at |-> "return", temp_obj |-> temp_obj, ks |-> ks, s |-> s, r |-> r,
                   knot_span |-> knot_span]]

(***************************************************************************)
(* Surfaces: ctrlpts2d is a list of rows, one row per u index.  A control  *)
(* point is the token <<i, j>> of its 1-based grid position; a recomputed  *)
(* one carries the negative of the index along the insertion direction.    *)
(***************************************************************************)
Surface(degree_u, degree_v, knotvector_u, knotvector_v, ctrlpts2d) ==
    [kind |-> "surface", degree_u |-> degree_u, degree_v |-> degree_v,
     knotvector_u |-> knotvector_u, knotvector_v |-> knotvector_v,
     ctrlpts2d |-> ctrlpts2d]

ctrlpts_size_u(sf) == Len(sf.ctrlpts2d)

ctrlpts_size_v(sf) == Len(sf.ctrlpts2d[1])

\* surface.insert_knot(u=t, ru=r, check_r=False)
insert_knot_surface_u(sf, t, r) ==
    LET k == find_span_linear(sf.degree_u, sf.knotvector_u, ctrlpts_size_u(sf), t)
        s == find_multiplicity(t, sf.knotvector_u, Tol)
    IN [sf EXCEPT !.knotvector_u = insert_knot_kv(sf.knotvector_u, t, r, k),
                  !.ctrlpts2d = [i \in 1..(ctrlpts_size_u(sf) + r) |->
                      LET o == insert_knot_keeps(i - 1, sf.degree_u, k, s, r)
                      IN IF o >= 0 THEN sf.ctrlpts2d[o + 1]
                         ELSE [j \in 1..ctrlpts_size_v(sf) |-> <<-i, j>>]]]

\* surface.insert_knot(v=t, rv=r, check_r=False)
insert_knot_surface_v(sf, t, r) ==
    LET k == find_span_linear(sf.degree_v, sf.knotvector_v, ctrlpts_size_v(sf), t)
        s == find_multiplicity(t, sf.knotvector_v, Tol)
    IN [sf EXCEPT !.knotvector_v = insert_knot_kv(sf.knotvector_v, t, r, k),
                  !.ctrlpts2d = [i \in 1..ctrlpts_size_u(sf) |->
                      [j \in 1..(ctrlpts_size_v(sf) + r) |->
                          LET o == insert_knot_keeps(j - 1, sf.degree_v, k, s, r)
                          IN IF o >= 0 THEN sf.ctrlpts2d[i][o + 1] ELSE <<i, -j>>]]]

split_surface_u(h, obj, t) ==
    LET sf == h[obj] IN
    IF on_corner(t, sf.knotvector_u)
    THEN Raised(h, "ValueError", [at |-> "corner"])
    ELSE
    LET ks == find_span_linear(sf.degree_u, sf.knotvector_u, ctrlpts_size_u(sf), t)
                  - sf.degree_u + 1
        s == find_multiplicity(t, sf.knotvector_u, Tol)
        r == insertions(sf.degree_u, s)
        cp == deepcopy(h, obj)
        temp_obj == cp.ref
    IN
    IF insert_knot_refuses(r)
    THEN Raised(cp.heap, "ValueError", [at |-> "insert_knot", temp_obj |-> temp_obj, s |-> s, r |-> r])
    ELSE
    LET h1 == [cp.heap EXCEPT ![temp_obj] = insert_knot_surface_u(@, t, r)]
        tmp == h1[temp_obj]
        knot_span == find_span_linear(tmp.degree_u, tmp.knotvector_u, ctrlpts_size_u(tmp), t) + 1
        surf1_kv == first_kv(tmp.knotvector_u, knot_span, t)
        surf2_kv == second_kv(tmp.knotvector_u, knot_span, t, tmp.degree_u)
        surf1_ctrlpts == first_ctrlpts(tmp.ctrlpts2d, ks, r)
        surf2_ctrlpts == second_ctrlpts(tmp.ctrlpts2d, ks, r)
        surf1 == Surface(tmp.degree_u, tmp.degree_v, surf1_kv, tmp.knotvector_v, surf1_ctrlpts)
        surf2 == Surface(tmp.degree_u, tmp.degree_v, surf2_kv, tmp.knotvector_v, surf2_ctrlpts)
    IN [status |-> "ok",
        heap |-> h1 \o <<surf1, surf2>>,
        ret |-> <<Len(h1) + 1, Len(h1) + 2>>,
        frame |-> [at |-> "return", temp_obj |-> temp_obj, ks |-> ks, s |-> s, r |-> r,
                   knot_span |-> knot_span]]

split_surface_v(h, obj, t) ==
    LET sf == h[obj] IN
    IF on_corner(t, sf.knotvector_v)
    THEN Raised(h, "ValueError", [at |-> "corner"])
    ELSE
    LET ks == find_span_linear(sf.degree_v, sf.knotvector_v, ctrlpts_size_v(sf), t)
                  - sf.degree_v + 1
        s == find_multiplicity(t, sf.knotvector_v, Tol)
        r == insertions(sf.degree_v, s)
        cp == deepcopy(h, obj)
        temp_obj == cp.ref
    IN
    IF insert_knot_refuses(r)
    THEN Raised(cp.heap, "ValueError", [at |-> "insert_knot", temp_obj |-> temp_obj, s |-> s, r |-> r])
    ELSE
    LET h1 == [cp.heap EXCEPT ![temp_obj] = insert_knot_surface_v(@, t, r)]
        tmp == h1[temp_obj]
        knot_span == find_span_linear(tmp.degree_v, tmp.knotvector_v, ctrlpts_size_v(tmp), t) + 1
        surf1_kv == first_kv(tmp.knotvector_v, knot_span, t)
        surf2_kv == second_kv(tmp.knotvector_v, knot_span, t, tmp.degree_v)
        surf1_ctrlpts == [i \in 1..Len(tmp.ctrlpts2d) |-> first_ctrlpts(tmp.ctrlpts2d[i], ks, r)]
        surf2_ctrlpts == [i \in 1..Len(tmp.ctrlpts2d) |-> second_ctrlpts(tmp.ctrlpts2d[i], ks, r)]
        surf1 == Surface(tmp.degree_u, tmp.degree_v, tmp.knotvector_u, surf1_kv, surf1_ctrlpts)
        surf2 == Surface(tmp.degree_u, tmp.degree_v, tmp.knotvector_u, surf2_kv, surf2_ctrlpts)
    IN [status |-> "ok",
        heap |-> h1 \o <<surf1, surf2>>,
        ret |-> <<Len(h1) + 1, Len(h1) + 2>>,
        frame |-> [at |-> "return", temp_obj |-> temp_obj, ks |-> ks, s |-> s, r |-> r,
                   knot_span |-> knot_span]]

(***************************************************************************)
(* Input shapes                                                            *)
(***************************************************************************)
MaxCross == 1

CrossValues == {Half \div 2, Half}

CrossDegrees == 1..MaxCross

CrossInteriors(degree) ==
    UNION {{s \in [1..n -> CrossValues] :
              IsSorted(s) /\ \A i \in 1..n : Count(s[i], s) <= degree} : n \in 0..MaxCross}

InputCurve(degree, interior) ==
    Curve(degree, Clamped(degree, interior),
          [i \in 1..(degree + 1 + Len(interior)) |-> i])

InputSurface(degree_u, interior_u, degree_v, interior_v) ==
    Surface(degree_u, degree_v, Clamped(degree_u, interior_u), Clamped(degree_v, interior_v),
            [i \in 1..(degree_u + 1 + Len(interior_u)) |->
                [j \in 1..(degree_v + 1 + Len(interior_v)) |-> <<i, j>>]])

InputCurves == UNION {{InputCurve(d, s) : s \in Interiors(d)} : d \in Degrees}

\* surfaces whose split direction is drawn like a curve and whose other
\* direction is drawn from the small cross set
InputSurfaces(dir) ==
    UNION {{IF dir = "u" THEN InputSurface(d, s, e, x) ELSE InputSurface(e, x, d, s) :
              s \in Interiors(d), x \in CrossInteriors(e)} : d \in Degrees, e \in CrossDegrees}

(***************************************************************************)
(* Specification of the split operations: one call on one drawn input      *)
(***************************************************************************)
Call(name, shape, a) ==
    /\ pc = "call"
    /\ op = name
    /\ heap = <<shape>>
    /\ old = <<shape>>
    /\ args = a
    /\ ret = <<>>
    /\ loc = <<>>

InitSplit ==
    \/ \E c \in InputCurves, u \in Params : Call("split_curve", c, [obj |-> 1, u |-> u])
    \/ \E sf \in InputSurfaces("u"), t \in Params : Call("split_surface_u", sf, [obj |-> 1, u |-> t])
    \/ \E sf \in InputSurfaces("v"), t \in Params : Call("split_surface_v", sf, [obj |-> 1, u |-> t])

Return(res) ==
    /\ pc' = IF res.status = "ok" THEN "done" ELSE "raised"
    /\ heap' = res.heap
    /\ ret' = res.ret
    /\ loc' = res.frame
    /\ UNCHANGED <<op, args, old>>

SplitCurve ==
    /\ pc = "call" /\ op = "split_curve"
    /\ Return(split_curve(heap, args.obj, args.u))

SplitSurfaceU ==
    /\ pc = "call" /\ op = "split_surface_u"
    /\ Return(split_surface_u(heap, args.obj, args.u))

SplitSurfaceV ==
    /\ pc = "call" /\ op = "split_surface_v"
    /\ Return(split_surface_v(heap, args.obj, args.u))

NextSplit == SplitCurve \/ SplitSurfaceU \/ SplitSurfaceV

SpecSplit == InitSplit /\ [][NextSplit]_vars

(***************************************************************************)
(* Claims about the split operations (specification SpecSplit)             *)
(***************************************************************************)
Returned(name) == pc = "done" /\ op = name

\* the span index of u in a knot vector, by its definition
SpanOf(knotvector, u) ==
    CHOOSE i \in 0..(Len(knotvector) - 2) : At(knotvector, i) <= u /\ u < At(knotvector, i + 1)

LengthInvariant(degree, knotvector, n) == Len(knotvector) = degree + n + 1

\* C2: split_curve at an interior u of multiplicity s inserts u r = degree - s
\* times and returns two curves of the input's degree holding P'[0:ks+r] and
\* P'[ks+r-1:] of the knot-inserted control points P', so that the halves share
\* exactly the seam point; for degree 3, [0,0,0,0,0.5,1,1,1,1] and u = 0.5 the
\* multiplicity of 0.5 goes from 1 to 3 and each half has 4 control points.
C2_SplitCurveHalves ==
    Returned("split_curve") =>
        LET c == old[1]
            u == args.u
            s == Cardinality({i \in 1..Len(c.knotvector) : Abs(u - c.knotvector[i]) <= Tol})
            r == c.degree - s
            ks == SpanOf(c.knotvector, u) - c.degree + 1
            P == heap[loc.temp_obj].ctrlpts
            c1 == heap[ret[1]]
            c2 == heap[ret[2]]
        IN /\ Len(heap[loc.temp_obj].knotvector) = Len(c.knotvector) + r
           /\ Len(P) = Len(c.ctrlpts) + r
           /\ c1.degree = c.degree /\ c2.degree = c.degree
           /\ c1.ctrlpts = SubSeq(P, 1, ks + r)
           /\ c2.ctrlpts = SubSeq(P, ks + r, Len(P))
           /\ c1.ctrlpts[Len(c1.ctrlpts)] = c2.ctrlpts[1]
           /\ Distinct(c1.ctrlpts) \cap Distinct(c2.ctrlpts) = {c2.ctrlpts[1]}
           /\ (c = InputCurve(3, <<Half>>) /\ u = Half =>
                 /\ Count(Half, c.knotvector) = 1
                 /\ Count(Half, heap[loc.temp_obj].knotvector) = 3
                 /\ Len(c1.ctrlpts) = 4 /\ Len(c2.ctrlpts) = 4)

C2_Witness ==
    /\ Returned("split_curve")
    /\ old[1] = InputCurve(3, <<Half>>) /\ args.u = Half
    /\ loc.r = 2
    /\ Len(heap[ret[1]].ctrlpts) = 4

\* C3: both shapes returned by split_curve, split_surface_u and split_surface_v
\* satisfy len(knotvector) = degree + len(control points) + 1 (per direction).
C3_SplitKeepsLengthInvariant ==
    /\ Returned("split_curve") =>
         \A k \in 1..2 : LET c == heap[ret[k]]
                         IN LengthInvariant(c.degree, c.knotvector, Len(c.ctrlpts))
    /\ Returned("split_surface_u") \/ Returned("split_surface_v") =>
         \A k \in 1..2 : LET sf == heap[ret[k]]
                         IN /\ LengthInvariant(sf.degree_u, sf.knotvector_u, Len(sf.ctrlpts2d))
                            /\ \A i \in 1..Len(sf.ctrlpts2d) :
                                 LengthInvariant(sf.degree_v, sf.knotvector_v, Len(sf.ctrlpts2d[i]))

C3_Witness ==
    /\ Returned("split_surface_v")
    /\ loc.r >= 1
    /\ Len(heap[ret[1]].knotvector_v) < Len(heap[loc.temp_obj].knotvector_v)

\* exactly n leading entries of s equal x
LeadsWith(s, x, n) ==
    /\ Len(s) >= n
    /\ \A i \in 1..n : s[i] = x
    /\ Len(s) > n => s[n + 1] # x

\* exactly n trailing entries of s equal x
EndsWith(s, x, n) ==
    /\ Len(s) >= n
    /\ \A i \in (Len(s) - n + 1)..Len(s) : s[i] = x
    /\ Len(s) > n => s[Len(s) - n] # x

\* C4: both curves returned by split_curve are clamped at the seam: the first
\* half's knot vector ends with exactly degree+1 entries equal to u and the
\* second half's begins with exactly degree+1 entries equal to u, also for a u
\* within the tolerance of an interior knot it is not equal to.
C4_HalvesClampedAtSeam ==
    Returned("split_curve") =>
        /\ EndsWith(heap[ret[1]].knotvector, args.u, old[1].degree + 1)
        /\ LeadsWith(heap[ret[2]].knotvector, args.u, old[1].degree + 1)

\* C5: the split operations never change their input: after a call, returned
\* or raised, the input shape has the field values it had before the call.
C5_SplitLeavesInput ==
    pc \in {"done", "raised"} => heap[args.obj] = old[args.obj]

C5_Witness ==
    /\ Returned("split_surface_u")
    /\ loc.r >= 1
    /\ heap[loc.temp_obj] # old[args.obj]

WithinTol(a, b) == Abs(a - b) <= Tol

\* the knot vector a split operation looks at
SplitKnots(shape) ==
    IF op = "split_curve" THEN shape.knotvector
    ELSE IF op = "split_surface_u" THEN shape.knotvector_u
    ELSE shape.knotvector_v

\* C6: a parameter within the knot tolerance of the first or last knot is
\* rejected with an error before anything is copied or inserted.
C6_RejectsWithinTolOfEnds ==
    /\ pc # "call"
    /\ \/ WithinTol(args.u, At(SplitKnots(old[1]), 0))
       \/ WithinTol(args.u, At(SplitKnots(old[1]), Len(SplitKnots(old[1])) - 1))
    => pc = "raised" /\ loc.at = "corner" /\ heap = old

\* the number of entries of a knot vector within tol of knot, counted one
\* entry after the other
RECURSIVE CountWithin(_, _, _)
CountWithin(knot, knotvector, tol) ==
    IF knotvector = <<>> THEN 0
    ELSE (IF Abs(knot - Head(knotvector)) <= tol THEN 1 ELSE 0)
         + CountWithin(knot, Tail(knotvector), tol)

\* C18: find_multiplicity returns the number of entries within tol of the
\* knot: 1 for 0.5 in [0,0,0,0,0.5,1,1,1,1]; after the r = degree - s
\* insertions of split_curve it is s + r, which is exactly degree (3 after the
\* two insertions of 0.5)
C18_MultiplicityReachesDegree ==
    Returned("split_curve") =>
        LET before == old[args.obj].knotvector
            after == heap[loc.temp_obj].knotvector
            degree == old[args.obj].degree
        IN /\ loc.s = CountWithin(args.u, before, Tol)
           /\ find_multiplicity(args.u, after, Tol) = CountWithin(args.u, after, Tol)
           /\ CountWithin(args.u, after, Tol) = loc.s + loc.r
           /\ CountWithin(args.u, after, Tol) = degree
           /\ (before = Clamped(MaxDegree, <<Half>>) /\ args.u = Half) =>
                  loc.s = 1 /\ CountWithin(args.u, after, Tol) = 1 + loc.r

C18_Witness ==
    /\ Returned("split_curve")
    /\ old[args.obj].knotvector = Clamped(MaxDegree, <<Half>>)
    /\ args.u = Half
    /\ loc.s = 1 /\ loc.r = MaxDegree - 1
    /\ find_multiplicity(Half, heap[loc.temp_obj].knotvector, Tol) = MaxDegree

(***************************************************************************)
(* src/geomdl/operations.py: decompose_curve and decompose_surface, one    *)
(* action per loop pass                                                    *)
(***************************************************************************)
\* knotvector[degree + 1:-(degree + 1)]
interior_knots(degree, knotvector) == PySlice(knotvector, degree + 1, -(degree + 1))

\* the list the loop body leaves in curves: the two halves of this split,
\* then the first half once more (the name curves is rebound to the split's
\* return value before the append)
curves_after_split(curves, halves) == Append(halves, halves[1])

strips_after_split_rebound(surf_list, halves) == Append(halves, halves[1])

\* surf_list.append(surfs[0]), and multi_surf.append(surfs[0]) alike
strips_after_split(surf_list, halves) == Append(surf_list, halves[1])

\* interior knots far from each other and from the ends: the quarter points
SpreadValues == {Half \div 2, Half, Half + Half \div 2}

SpreadInteriors(degree) ==
    UNION {{s \in [1..n -> SpreadValues] :
              IsSorted(s) /\ \A i \in 1..n : Count(s[i], s) <= degree} : n \in 0..MaxInterior}

\* the shapes that are decomposed: interior knots next to each other and to
\* the ends as for the splits, and interior knots far apart
DecomposeInteriors(degree) == Interiors(degree) \cup SpreadInteriors(degree)

InitDecompose ==
    \/ \E d \in Degrees : \E s \in DecomposeInteriors(d) :
         Call("decompose_curve", InputCurve(d, s), [obj |-> 1])
    \/ \E d \in Degrees, e \in CrossDegrees :
         \E s \in DecomposeInteriors(d), x \in CrossInteriors(e) :
            \E sf \in {InputSurface(d, s, e, x), InputSurface(e, x, d, s)} :
               Call("decompose_surface", sf, [obj |-> 1])

\* curves = []; curve = copy.deepcopy(obj); knots = curve.knotvector[...]
DecomposeCurveEnter ==
    /\ pc = "call" /\ op = "decompose_curve"
    /\ LET cp == deepcopy(heap, args.obj)
       IN /\ heap' = cp.heap
          /\ loc' = [curves |-> <<>>, curve |-> cp.ref,
                     knots |-> interior_knots(cp.heap[cp.ref].degree, cp.heap[cp.ref].knotvector)]
    /\ pc' = "loop"
    /\ UNCHANGED <<op, args, old, ret>>

\* one pass of: while knots
DecomposeCurveSplit ==
    /\ pc = "loop" /\ op = "decompose_curve"
    /\ loc.knots # <<>>
    /\ LET knot == At(loc.knots, 0)
           res == split_curve(heap, loc.curve, knot)
       IN /\ heap' = res.heap
          /\ IF res.status = "ok"
             THEN /\ pc' = "loop"
                  /\ loc' = [curves |-> curves_after_split(loc.curves, res.ret),
                             curve |-> res.ret[2],
                             knots |-> interior_knots(res.heap[res.ret[2]].degree,
                                                      res.heap[res.ret[2]].knotvector)]
             ELSE /\ pc' = "raised"
                  /\ loc' = loc
    /\ UNCHANGED <<op, args, old, ret>>

\* curves.append(curve); return curves
DecomposeCurveReturn ==
    /\ pc = "loop" /\ op = "decompose_curve"
    /\ loc.knots = <<>>
    /\ ret' = Append(loc.curves, loc.curve)
    /\ pc' = "done"
    /\ UNCHANGED <<op, args, heap, old, loc>>

\* surf = copy.deepcopy(obj); surf_list = []; knots_u = ...
DecomposeSurfaceEnter ==
    /\ pc = "call" /\ op = "decompose_surface"
    /\ LET cp == deepcopy(heap, args.obj)
       IN /\ heap' = cp.heap
          /\ loc' = [surf_list |-> <<>>, surf |-> cp.ref,
                     knots |-> interior_knots(cp.heap[cp.ref].degree_u,
                                              cp.heap[cp.ref].knotvector_u)]
    /\ pc' = "loop_u"
    /\ UNCHANGED <<op, args, old, ret>>

\* one pass of: while knots_u
DecomposeSurfaceSplitU ==
    /\ pc = "loop_u" /\ op = "decompose_surface"
    /\ loc.knots # <<>>
    /\ LET knot == At(loc.knots, 0)
           res == split_surface_u(heap, loc.surf, knot)
       IN /\ heap' = res.heap
          /\ IF res.status = "ok"
             THEN /\ pc' = "loop_u"
                  /\ loc' = [surf_list |-> strips_after_split(loc.surf_list, res.ret),
                             surf |-> res.ret[2],
                             knots |-> interior_knots(res.heap[res.ret[2]].degree_u,
                                                      res.heap[res.ret[2]].knotvector_u)]
             ELSE /\ pc' = "raised"
                  /\ loc' = loc
    /\ UNCHANGED <<op, args, old, ret>>

\* surf_list.append(surf); multi_surf = []; the first strip of: for surf in
\* surf_list
DecomposeSurfaceStrips ==
    /\ pc = "loop_u" /\ op = "decompose_surface"
    /\ loc.knots = <<>>
    /\ LET surf_list == Append(loc.surf_list, loc.surf)
           surf == At(surf_list, 0)
       IN loc' = [surf_list |-> surf_list, idx |-> 0, multi_surf |-> <<>>, surf |-> surf,
                  knots |-> interior_knots(heap[surf].degree_v, heap[surf].knotvector_v)]
    /\ pc' = "loop_v"
    /\ UNCHANGED <<op, args, heap, old, ret>>

\* one pass of: while knots_v
DecomposeSurfaceSplitV ==
    /\ pc = "loop_v" /\ op = "decompose_surface"
    /\ loc.knots # <<>>
    /\ LET knot == At(loc.knots, 0)
           res == split_surface_v(heap, loc.surf, knot)
       IN /\ heap' = res.heap
          /\ IF res.status = "ok"
             THEN /\ pc' = "loop_v"
                  /\ loc' = [loc EXCEPT !.multi_surf = strips_after_split(@, res.ret),
                                        !.surf = res.ret[2],
                                        !.knots = interior_knots(res.heap[res.ret[2]].degree_v,
                                                                 res.heap[res.ret[2]].knotvector_v)]
             ELSE /\ pc' = "raised"
                  /\ loc' = loc
    /\ UNCHANGED <<op, args, old, ret>>

\* multi_surf.append(surf); the next strip of: for surf in surf_list
DecomposeSurfaceNextStrip ==
    /\ pc = "loop_v" /\ op = "decompose_surface"
    /\ loc.knots = <<>>
    /\ loc.idx + 1 < Len(loc.surf_list)
    /\ LET surf == At(loc.surf_list, loc.idx + 1)
       IN loc' = [loc EXCEPT !.multi_surf = Append(@, loc.surf),
                             !.idx = @ + 1,
                             !.surf = surf,
                             !.knots = interior_knots(heap[surf].degree_v,
                                                      heap[surf].knotvector_v)]
    /\ UNCHANGED <<pc, op, args, heap, old, ret>>

\* multi_surf.append(surf) for the last strip; return multi_surf
DecomposeSurfaceReturn ==
    /\ pc = "loop_v" /\ op = "decompose_surface"
    /\ loc.knots = <<>>
    /\ loc.idx + 1 = Len(loc.surf_list)
    /\ ret' = Append(loc.multi_surf, loc.surf)
    /\ pc' = "done"
    /\ UNCHANGED <<op, args, heap, old, loc>>

NextDecompose ==
    \/ DecomposeCurveEnter \/ DecomposeCurveSplit \/ DecomposeCurveReturn
    \/ DecomposeSurfaceEnter \/ DecomposeSurfaceSplitU \/ DecomposeSurfaceStrips
    \/ DecomposeSurfaceSplitV \/ DecomposeSurfaceNextStrip \/ DecomposeSurfaceReturn

SpecDecompose == InitDecompose /\ [][NextDecompose]_vars

\* C1: decompose_curve on a clamped curve with k distinct interior knot values
\* returns a list of exactly k + 1 curves.
C1_DecomposeCurveCount ==
    Returned("decompose_curve") =>
        Len(ret) = Cardinality(Distinct(PySlice(old[1].knotvector, old[1].degree + 1,
                                                Len(old[1].knotvector) - old[1].degree - 1))) + 1

\* the values of a set in increasing order
RECURSIVE Ascending(_)
Ascending(S) ==
    IF S = {} THEN <<>>
    ELSE LET least == CHOOSE x \in S : \A y \in S : x <= y
         IN <<least>> \o Ascending(S \ {least})

\* the distinct knot values of a clamped knot vector, its two ends included
Breakpoints(knotvector) == Ascending(Distinct(knotvector))

C19_DecomposeCurveSegments ==
    Returned("decompose_curve") =>
        LET c == old[args.obj]
            d == Breakpoints(c.knotvector)
        IN /\ Len(ret) = Len(d) - 1
           /\ \A i \in 0..(Len(ret) - 1) :
                 heap[At(ret, i)].knotvector
                    = Rep(At(d, i), c.degree + 1) \o Rep(At(d, i + 1), c.degree + 1)
           /\ \A i, j \in 1..Len(ret) : ret[i] = ret[j] => i = j

\* a pass of one of the three decompose loops that splits and goes on
SplitPass ==
    /\ pc \in {"loop", "loop_u", "loop_v"}
    /\ loc.knots # <<>>
    /\ pc' = pc

\* the interior slice after the pass is a strictly shorter tail of the one
\* before it, and the split knot is no longer in it
Shrinks ==
    /\ Len(loc'.knots) < Len(loc.knots)
    /\ loc'.knots = PyFrom(loc.knots, Len(loc.knots) - Len(loc'.knots))
    /\ At(loc.knots, 0) \notin Distinct(loc'.knots)

\* C20: in decompose_curve and in both loops of decompose_surface every split
\* at the first interior knot leaves a second half whose interior slice is
\* strictly shorter than that of the shape split, all copies of the split knot
\* removed, so that each loop has at most one pass per distinct interior knot
C20_DecomposeTerminates == [][SplitPass => Shrinks]_vars

C20_Witness ==
    /\ pc = "loop_v" /\ op = "decompose_surface"
    /\ Len(loc.surf_list) > 1
    /\ loc.idx > 0
    /\ Len(loc.multi_surf) > loc.idx
    /\ loc.knots = <<>>

(***************************************************************************)
(* src/nurbs/utilities.py: find_span (Algorithm A2.1), one action per loop *)
(* pass.  loc holds n, low, high and mid.                                  *)
(***************************************************************************)
\* knots: the grid values of the domain, one below it and one more than tol above it
SpanKnots == Params \cup {-1, One + Tol + 1}

\* ret is an index once find_span has returned, -1 before
InitSpan ==
    \E d \in Degrees : \E s \in Interiors(d), knot \in SpanKnots :
        /\ pc = "call"
        /\ op = "find_span"
        /\ args = [degree |-> d, knotvector |-> Clamped(d, s),
                   num_ctrlpts |-> d + 1 + Len(s), knot |-> knot, tol |-> Tol]
        /\ heap = <<>>
        /\ old = <<>>
        /\ ret = -1
        /\ loc = <<>>

\* abs(knotvector[n + 1] - knot) <= tol
find_span_at_end(knotvector, n, knot, tol) == Abs(At(knotvector, n + 1) - knot) <= tol

\* int((low + high) / 2) of non-negative integers
find_span_mid(low, high) == (low + high) \div 2

\* the while condition
find_span_outside(knotvector, knot, mid) ==
    knot < At(knotvector, mid) \/ knot >= At(knotvector, mid + 1)

\* the loop body's choice of the half that is kept: <<low, high>>
find_span_narrow_le(knotvector, knot, low, high, mid) ==
    IF knot <= At(knotvector, mid) THEN <<low, mid>> ELSE <<mid, high>>

find_span_narrow(knotvector, knot, low, high, mid) ==
    IF knot < At(knotvector, mid) THEN <<low, mid>> ELSE <<mid, high>>

\* the early return of the last span
FindSpanAtEnd ==
    /\ pc = "call" /\ op = "find_span"
    /\ LET n == args.num_ctrlpts - 1
       IN /\ find_span_at_end(args.knotvector, n, args.knot, args.tol)
          /\ ret' = n
          /\ loc' = [n |-> n]
    /\ pc' = "done"
    /\ UNCHANGED <<op, args, heap, old>>

\* low = degree; high = n + 1; mid = int((low + high) / 2)
FindSpanEnter ==
    /\ pc = "call" /\ op = "find_span"
    /\ LET n == args.num_ctrlpts - 1
       IN /\ ~find_span_at_end(args.knotvector, n, args.knot, args.tol)
          /\ loc' = [n |-> n, low |-> args.degree, high |-> n + 1,
                     mid |-> find_span_mid(args.degree, n + 1)]
    /\ pc' = "loop"
    /\ UNCHANGED <<op, args, heap, old, ret>>

\* one pass of the while loop
FindSpanNarrow ==
    /\ pc = "loop" /\ op = "find_span"
    /\ find_span_outside(args.knotvector, args.knot, loc.mid)
    /\ LET lh == find_span_narrow(args.knotvector, args.knot, loc.low, loc.high, loc.mid)
       IN loc' = [loc EXCEPT !.low = lh[1], !.high = lh[2],
                             !.mid = find_span_mid(lh[1], lh[2])]
    /\ UNCHANGED <<pc, op, args, heap, old, ret>>

\* return mid
FindSpanReturn ==
    /\ pc = "loop" /\ op = "find_span"
    /\ ~find_span_outside(args.knotvector, args.knot, loc.mid)
    /\ ret' = loc.mid
    /\ pc' = "done"
    /\ UNCHANGED <<op, args, heap, old, loc>>

NextSpan == FindSpanAtEnd \/ FindSpanEnter \/ FindSpanNarrow \/ FindSpanReturn

SpecSpan == InitSpan /\ [][NextSpan]_vars

\* the loop is scheduled as long as it can take a pass that changes its state
FairSpecSpan == SpecSpan /\ WF_vars(NextSpan)

InDomain == At(args.knotvector, args.degree) <= args.knot
            /\ args.knot < At(args.knotvector, args.num_ctrlpts)

\* C7: for a knot with knotvector[degree] <= knot < knotvector[n+1], find_span
\* returns an index i with degree <= i <= n and knotvector[i] <= knot <
\* knotvector[i+1], except that a knot within tol of knotvector[n+1] gets n;
\* while searching the knot stays inside [knotvector[low], knotvector[high]).
C7_FindSpanBrackets ==
    op = "find_span" /\ InDomain =>
        LET n == args.num_ctrlpts - 1
            U == args.knotvector
        IN /\ pc = "done" =>
                IF Abs(At(U, n + 1) - args.knot) <= args.tol
                THEN ret = n
                ELSE /\ args.degree <= ret /\ ret <= n
                     /\ At(U, ret) <= args.knot /\ args.knot < At(U, ret + 1)
           /\ pc = "loop" =>
                /\ loc.low < loc.high
                /\ At(U, loc.low) <= args.knot /\ args.knot < At(U, loc.high)

C7_Witness ==
    /\ op = "find_span" /\ pc = "done" /\ InDomain
    /\ DOMAIN loc = {"n", "low", "high", "mid"}
    /\ loc.low > args.degree \/ loc.high < loc.n + 1
    /\ ret = loc.mid
    /\ At(args.knotvector, ret) < args.knot

\* C8: find_span terminates on every input, also for a knot below
\* knotvector[degree] or more than tol above knotvector[n+1], and never
\* indexes outside the knot vector.
C8_FindSpanTerminates == <>(pc = "done")

(***************************************************************************)
(* Exact arithmetic for the values the code computes in floating point: a  *)
(* rational is <<numerator, denominator>> in lowest terms, denominator > 0 *)
(***************************************************************************)
RECURSIVE GCD(_, _)
GCD(a, b) == IF b = 0 THEN a ELSE GCD(b, a % b)

Rat(n, d) ==
    LET g == GCD(Abs(n), Abs(d))
        sgn == IF d < 0 THEN -1 ELSE 1
    IN <<sgn * (n \div g), sgn * (d \div g)>>

RInt(n) == <<n, 1>>

\* sums over the least common denominator and products after cross-cancelling,
\* so that no intermediate value is larger than the result needs
RAdd(x, y) ==
    LET g == GCD(x[2], y[2])
    IN Rat(x[1] * (y[2] \div g) + y[1] * (x[2] \div g), (x[2] \div g) * y[2])

RNeg(x) == <<-x[1], x[2]>>

RSub(x, y) == RAdd(x, RNeg(y))

RMul(x, y) ==
    LET g == GCD(Abs(x[1]), y[2])
        h == GCD(Abs(y[1]), x[2])
    IN Rat((x[1] \div g) * (y[1] \div h), (x[2] \div h) * (y[2] \div g))

\* x / y for y # 0
RDiv(x, y) == RMul(x, IF y[1] < 0 THEN <<-y[2], -y[1]>> ELSE <<y[2], y[1]>>)

RLess(x, y) == x[1] * y[2] < y[1] * x[2]

RECURSIVE RSum(_, _, _)
\* f[lo] + ... + f[hi]
RSum(f, lo, hi) == IF lo > hi THEN RInt(0) ELSE RAdd(f[lo], RSum(f, lo + 1, hi))

\* the value of a list entry that was created and not yet assigned
None == <<>>

(***************************************************************************)
(* src/nurbs/utilities.py: knotvector_autogen                              *)
(***************************************************************************)
RECURSIVE autogen_fill(_, _, _)
\* while i < stop: knotvector.append(value); i += 1   (i is len(knotvector))
autogen_fill(knotvector, stop, value) ==
    IF Len(knotvector) < stop
    THEN autogen_fill(Append(knotvector, value), stop, value)
    ELSE knotvector

RECURSIVE autogen_middle(_, _, _, _)
\* while i < stop: knotvector.append(midknot); midknot += spacing; i += 1
autogen_middle(knotvector, stop, midknot, spacing) ==
    IF Len(knotvector) < stop
    THEN autogen_middle(Append(knotvector, midknot), stop, RAdd(midknot, spacing), spacing)
    ELSE knotvector

\* num_segments = (m - (degree+1)*2)+1
autogen_num_segments_no_plus_one(m, degree) == m - (degree + 1) * 2

autogen_num_segments(m, degree) == (m - (degree + 1) * 2) + 1

knotvector_autogen(degree, num_ctrlpts) ==
    IF degree = 0 \/ num_ctrlpts = 0
    THEN [status |-> "ValueError", ret |-> <<>>]
    ELSE
    LET knot_min == RInt(0)
        knot_max == RInt(1)
        m == degree + num_ctrlpts + 1
        first == autogen_fill(<<>>, degree + 1, knot_min)
        num_segments == autogen_num_segments(m, degree)
    IN
    IF num_segments = 0
    THEN [status |-> "ZeroDivisionError", ret |-> <<>>]
    ELSE
    LET spacing == RDiv(RSub(knot_max, knot_min), RInt(num_segments))
        midknot == RAdd(knot_min, spacing)
        middle == autogen_middle(first, m - (degree + 1), midknot, spacing)
    IN [status |-> "ok", ret |-> autogen_fill(middle, m, knot_max)]

(***************************************************************************)
(* src/nurbs/utilities.py: basis_functions (Algorithm A2.2)                *)
(***************************************************************************)
\* left[j] = knot - knotvector[span+1-j]
basis_left(knotvector, span, knot, j) == RInt(knot - At(knotvector, span + 1 - j))

\* right[j] = knotvector[span+j] - knot
basis_right(knotvector, span, knot, j) == RInt(At(knotvector, span + j) - knot)

\* N[r] = saved + right[r+1] * temp
basis_term_drops_saved(saved, right_r1, temp) == RMul(right_r1, temp)

basis_term(saved, right_r1, temp) == RAdd(saved, RMul(right_r1, temp))

RECURSIVE basis_inner(_, _, _, _, _, _)
\* for r in range(0, j): ...; then N[j] = saved
basis_inner(N, left, right, j, r, saved) ==
    IF r < j
    THEN LET temp == RDiv(N[r], RAdd(right[r + 1], left[j - r]))
         IN basis_inner([N EXCEPT ![r] = basis_term(saved, right[r + 1], temp)],
                        left, right, j, r + 1, RMul(left[j - r], temp))
    ELSE [N EXCEPT ![j] = saved]

RECURSIVE basis_outer(_, _, _, _, _, _, _, _)
\* for j in range(1, degree+1)
basis_outer(N, left, right, j, degree, knotvector, span, knot) ==
    IF j <= degree
    THEN LET left1 == [left EXCEPT ![j] = basis_left(knotvector, span, knot, j)]
             right1 == [right EXCEPT ![j] = basis_right(knotvector, span, knot, j)]
         IN basis_outer(basis_inner(N, left1, right1, j, 0, RInt(0)),
                        left1, right1, j + 1, degree, knotvector, span, knot)
    ELSE N

basis_functions(degree, knotvector, span, knot) ==
    LET left == [x \in 0..degree |-> None]
        right == [x \in 0..degree |-> None]
        N == [[x \in 0..degree |-> None] EXCEPT ![0] = RInt(1)]
    IN basis_outer(N, left, right, 1, degree, knotvector, span, knot)

(***************************************************************************)
(* basis_functions_ders (Algorithm A2.3) on Python lists                   *)
(*                                                                         *)
(* A list is a function on 0..n-1.  Every read and every store carries the *)
(* exception Python would raise: IndexError for an index outside -n..n-1   *)
(* (a negative index counts from the end), TypeError for arithmetic on     *)
(* None, ZeroDivisionError for a zero divisor.  Python raises nothing for   *)
(* an index in -n..-1: the field negative of a value and of the state      *)
(* records that one has been used.                                         *)
(***************************************************************************)
InList(i, n) == -n <= i /\ i < n

Idx(i, n) == IF i < 0 THEN i + n ELSE i

List(n, v) == [x \in 0..(n - 1) |-> v]

Size(l) == Cardinality(DOMAIN l)

Ok(v) == [err |-> "", v |-> v, negative |-> FALSE]

Exc(e) == [err |-> e, v |-> None, negative |-> FALSE]

\* l[i]
Item(l, i) ==
    IF l.err # "" THEN l
    ELSE IF InList(i, Size(l.v))
         THEN [Ok(l.v[Idx(i, Size(l.v))]) EXCEPT !.negative = l.negative \/ i < 0]
    ELSE Exc("IndexError")

\* t[i][j]
Item2(t, i, j) == Item(Item(Ok(t), i), j)

\* knotvector[i] as a float
KnotItem(knotvector, i) ==
    IF InList(i, Len(knotvector))
    THEN [Ok(RInt(At(knotvector, Idx(i, Len(knotvector))))) EXCEPT !.negative = i < 0]
    ELSE Exc("IndexError")

QAdd(x, y) ==
    IF x.err # "" THEN x ELSE IF y.err # "" THEN y
    ELSE IF x.v = None \/ y.v = None THEN Exc("TypeError")
    ELSE [Ok(RAdd(x.v, y.v)) EXCEPT !.negative = x.negative \/ y.negative]

QSub(x, y) ==
    IF x.err # "" THEN x ELSE IF y.err # "" THEN y
    ELSE IF x.v = None \/ y.v = None THEN Exc("TypeError")
    ELSE [Ok(RSub(x.v, y.v)) EXCEPT !.negative = x.negative \/ y.negative]

QMul(x, y) ==
    IF x.err # "" THEN x ELSE IF y.err # "" THEN y
    ELSE IF x.v = None \/ y.v = None THEN Exc("TypeError")
    ELSE [Ok(RMul(x.v, y.v)) EXCEPT !.negative = x.negative \/ y.negative]

QDiv(x, y) ==
    IF x.err # "" THEN x ELSE IF y.err # "" THEN y
    ELSE IF x.v = None \/ y.v = None THEN Exc("TypeError")
    ELSE IF y.v[1] = 0 THEN Exc("ZeroDivisionError")
    ELSE [Ok(RDiv(x.v, y.v)) EXCEPT !.negative = x.negative \/ y.negative]

QNeg(x) ==
    IF x.err # "" THEN x
    ELSE IF x.v = None THEN Exc("TypeError")
    ELSE [Ok(RNeg(x.v)) EXCEPT !.negative = x.negative]

\* name = q: nothing more happens once an exception is under way
Set(st, name, q) ==
    IF st.err # "" THEN st
    ELSE IF q.err # "" THEN [st EXCEPT !.err = q.err]
    ELSE [st EXCEPT ![name] = q.v, !.negative = @ \/ q.negative]

\* name[i] = q
Store(st, name, i, q) ==
    IF st.err # "" THEN st
    ELSE IF q.err # "" THEN [st EXCEPT !.err = q.err]
    ELSE IF ~InList(i, Size(st[name])) THEN [st EXCEPT !.err = "IndexError"]
    ELSE [st EXCEPT ![name][Idx(i, Size(st[name]))] = q.v,
                    !.negative = @ \/ q.negative \/ i < 0]

\* name[i][j] = q
Store2(st, name, i, j, q) ==
    IF st.err # "" THEN st
    ELSE IF q.err # "" THEN [st EXCEPT !.err = q.err]
    ELSE IF ~InList(i, Size(st[name])) THEN [st EXCEPT !.err = "IndexError"]
    ELSE LET row == Idx(i, Size(st[name]))
         IN IF ~InList(j, Size(st[name][row])) THEN [st EXCEPT !.err = "IndexError"]
            ELSE [st EXCEPT ![name][row][Idx(j, Size(st[name][row]))] = q.v,
                            !.negative = @ \/ q.negative \/ i < 0 \/ j < 0]

\* st, then what F makes of it: one statement after the other
Then(st, F(_)) == CHOOSE out \in {F(x) : x \in {st}} : TRUE

\* the reads of one statement of the derivative loop, noted before it runs:
\*     a[s2][..] = .. a[s1][f] .. / ndu[divisor]  and then  d .. * ndu[factor]
\* For every a[s1][f] the pass that wrote the entry (by).  A pass is
\* <<rk, pk>>: the pass before it for the same r is <<rk + 1, pk + 1>>, and
\* a[0][0] = 1.0 counts as the pass <<r, degree>> (k = 0) of its r
NoteReads(st, s1, from, divisor, factor, rk, pk) ==
    IF st.err # "" THEN st
    ELSE [st EXCEPT
            !.reads_a = @ \cup {[i |-> s1, j |-> f, by |-> Item2(st.by, s1, f).v,
                                 pass |-> <<rk, pk>>] : f \in from},
            !.reads_ndu = @ \cup {[i |-> divisor[1], j |-> divisor[2], use |-> "divisor"],
                                  [i |-> factor[1], j |-> factor[2], use |-> "factor"]}]

\* the r loop of the triangle ndu
RECURSIVE ders_ndu_inner(_, _, _)
ders_ndu_inner(st, j, r) ==
    IF r >= j \/ st.err # "" THEN st
    ELSE LET lower(x) == Store2(x, "ndu", j, r,
                                QAdd(Item(Ok(x.right), r + 1), Item(Ok(x.left), j - r)))
             ratio(x) == Set(x, "temp", QDiv(Item2(x.ndu, r, j - 1), Item2(x.ndu, j, r)))
             upper(x) == Store2(x, "ndu", r, j,
                                QAdd(Ok(x.saved), QMul(Item(Ok(x.right), r + 1), Ok(x.temp))))
             carry(x) == Set(x, "saved", QMul(Item(Ok(x.left), j - r), Ok(x.temp)))
             again(x) == ders_ndu_inner(x, j, r + 1)
         IN Then(Then(Then(Then(Then(st, lower), ratio), upper), carry), again)

\* the j loop of the triangle ndu
RECURSIVE ders_ndu(_, _, _, _, _, _)
ders_ndu(st, j, degree, knotvector, span, knot) ==
    IF j > degree \/ st.err # "" THEN st
    ELSE LET setleft(x) == Store(x, "left", j,
                                 QSub(Ok(RInt(knot)), KnotItem(knotvector, span + 1 - j)))
             setright(x) == Store(x, "right", j,
                                  QSub(KnotItem(knotvector, span + j), Ok(RInt(knot))))
             reset(x) == Set(x, "saved", Ok(RInt(0)))
             inner(x) == ders_ndu_inner(x, j, 0)
             diagonal(x) == Store2(x, "ndu", j, j, Ok(x.saved))
             again(x) == ders_ndu(x, j + 1, degree, knotvector, span, knot)
         IN Then(Then(Then(Then(Then(Then(st, setleft), setright), reset), inner), diagonal),
                 again)

ders_load_row(ndu, j, degree) == Item2(ndu, degree, j)

\* the entry of ndu that becomes ders[0][j]
ders_load(ndu, j, degree) == Item2(ndu, j, degree)

RECURSIVE ders_loaded(_, _, _)
ders_loaded(st, j, degree) ==
    IF j > degree \/ st.err # "" THEN st
    ELSE LET load(x) == Store2(x, "ders", 0, j, ders_load(x.ndu, j, degree))
             again(x) == ders_loaded(x, j + 1, degree)
         IN Then(Then(st, load), again)

ders_j1_one(rk) == 1

ders_j1(rk) == IF rk >= -1 THEN 1 ELSE -rk

ders_j2(r, k, pk, degree) == IF (r - 1) <= pk THEN k - 1 ELSE degree - r

\* the j loop of one derivative
RECURSIVE ders_a_inner(_, _, _, _, _, _, _)
ders_a_inner(st, j, j2, s1, s2, rk, pk) ==
    IF j > j2 \/ st.err # "" THEN st
    ELSE LET note(x) == NoteReads(x, s1, {j, j - 1}, <<pk + 1, rk + j>>, <<rk + j, pk>>,
                                       rk, pk)
             seta(x) == Store2(x, "a", s2, j,
                               QDiv(QSub(Item2(x.a, s1, j), Item2(x.a, s1, j - 1)),
                                    Item2(x.ndu, pk + 1, rk + j)))
             wrote(x) == Store2(x, "by", s2, j, Ok(<<rk, pk>>))
             addd(x) == Set(x, "d",
                            QAdd(Ok(x.d), QMul(Item2(x.a, s2, j), Item2(x.ndu, rk + j, pk))))
             again(x) == ders_a_inner(x, j + 1, j2, s1, s2, rk, pk)
         IN Then(Then(Then(Then(Then(st, note), seta), wrote), addd), again)

\* the k loop: the k-th derivative of function r, rows s1 and s2 of a swapped
\* after every pass
RECURSIVE ders_k(_, _, _, _, _, _, _)
ders_k(st, r, k, s1, s2, degree, order) ==
    IF k > order \/ st.err # "" THEN st
    ELSE LET rk == r - k
             pk == degree - k
             zero(x) == Set(x, "d", Ok(RInt(0)))
             head(x) ==
                 IF r >= k
                 THEN LET note(y) == NoteReads(y, s1, {0}, <<pk + 1, rk>>, <<rk, pk>>, rk, pk)
                          seta(y) == Store2(y, "a", s2, 0,
                                            QDiv(Item2(y.a, s1, 0), Item2(y.ndu, pk + 1, rk)))
                          wrote(y) == Store2(y, "by", s2, 0, Ok(<<rk, pk>>))
                          setd(y) == Set(y, "d", QMul(Item2(y.a, s2, 0), Item2(y.ndu, rk, pk)))
                      IN Then(Then(Then(Then(x, note), seta), wrote), setd)
                 ELSE x
             middle(x) == ders_a_inner(x, ders_j1(rk), ders_j2(r, k, pk, degree), s1, s2, rk, pk)
             tail(x) ==
                 IF r <= pk
                 THEN LET note(y) == NoteReads(y, s1, {k - 1}, <<pk + 1, r>>, <<r, pk>>, rk, pk)
                          seta(y) == Store2(y, "a", s2, k,
                                            QDiv(QNeg(Item2(y.a, s1, k - 1)),
                                                 Item2(y.ndu, pk + 1, r)))
                          wrote(y) == Store2(y, "by", s2, k, Ok(<<rk, pk>>))
                          addd(y) == Set(y, "d",
                                         QAdd(Ok(y.d),
                                              QMul(Item2(y.a, s2, k), Item2(y.ndu, r, pk))))
                      IN Then(Then(Then(Then(x, note), seta), wrote), addd)
                 ELSE x
             keep(x) == Store2(x, "ders", k, r, Ok(x.d))
             again(x) == ders_k(x, r, k + 1, s2, s1, degree, order)
         IN Then(Then(Then(Then(Then(Then(st, zero), head), middle), tail), keep), again)

\* the r loop over the function index
RECURSIVE ders_r(_, _, _, _)
ders_r(st, r, degree, order) ==
    IF r > degree \/ st.err # "" THEN st
    ELSE LET first(x) == Store2(x, "a", 0, 0, Ok(RInt(1)))
             wrote(x) == Store2(x, "by", 0, 0, Ok(<<r, degree>>))
             derive(x) == ders_k(x, r, 1, 0, 1, degree, order)
             again(x) == ders_r(x, r + 1, degree, order)
         IN Then(Then(Then(Then(st, first), wrote), derive), again)

RECURSIVE ders_scale_row(_, _, _, _, _)
ders_scale_row(st, k, j, degree, r) ==
    IF j > degree \/ st.err # "" THEN st
    ELSE LET scale(x) == Store2(x, "ders", k, j, QMul(Item2(x.ders, k, j), Ok(r)))
             again(x) == ders_scale_row(x, k, j + 1, degree, r)
         IN Then(Then(st, scale), again)

\* the multiplication by degree! / (degree-k)!
RECURSIVE ders_scale(_, _, _, _, _)
ders_scale(st, k, degree, order, r) ==
    IF k > order \/ st.err # "" THEN st
    ELSE LET row(x) == ders_scale_row(x, k, 0, degree, r)
             again(x) == ders_scale(x, k + 1, degree, order, RMul(r, RInt(degree - k)))
         IN Then(Then(st, row), again)

basis_functions_ders(degree, knotvector, span, knot, order) ==
    LET st0 == [left |-> List(degree + 1, None),
                right |-> List(degree + 1, None),
                ndu |-> [List(degree + 1, List(degree + 1, None)) EXCEPT ![0][0] = RInt(1)],
                ders |-> None, a |-> None, saved |-> None, temp |-> None, d |-> None,
                err |-> "", negative |-> FALSE, by |-> None, reads_a |-> {},
                reads_ndu |-> {}]
        triangle(x) == ders_ndu(x, 1, degree, knotvector, span, knot)
        allocate(x) == Set(x, "ders",
                          Ok(List(Min2(degree, order) + 1, List(degree + 1, None))))
        load(x) == ders_loaded(x, 0, degree)
        rows(x) == Set(Set(x, "a", Ok(List(2, List(degree + 1, None)))),
                       "by", Ok(List(2, List(degree + 1, None))))
        derive(x) == ders_r(x, 0, degree, order)
        scale(x) == ders_scale(x, 1, degree, order, RInt(degree))
        result(x) == [status |-> IF x.err = "" THEN "ok" ELSE x.err,
                      ret |-> IF x.err = "" THEN x.ders ELSE None,
                      negative |-> x.negative, reads_a |-> x.reads_a,
                      reads_ndu |-> x.reads_ndu]
    IN Then(Then(Then(Then(Then(Then(Then(st0, triangle), allocate), load), rows), derive),
                 scale), result)

(***************************************************************************)
(* src/nurbs/utilities.py: knotvector_normalize                            *)
(***************************************************************************)
normalize_entry_unshifted(kv, first_knot, last_knot) ==
    QDiv(Ok(RInt(kv)), QSub(Ok(RInt(last_knot)), Ok(RInt(first_knot))))

\* (float(kv) - first_knot) / (last_knot - first_knot)
normalize_entry(kv, first_knot, last_knot) ==
    QDiv(QSub(Ok(RInt(kv)), Ok(RInt(first_knot))),
         QSub(Ok(RInt(last_knot)), Ok(RInt(first_knot))))

\* the loop that appends one entry per knot, until one raises
RECURSIVE normalize_loop(_, _, _, _, _)
normalize_loop(knotvector, i, first_knot, last_knot, out) ==
    IF i > Len(knotvector) THEN [status |-> "ok", ret |-> out]
    ELSE LET q == normalize_entry(knotvector[i], first_knot, last_knot)
         IN IF q.err # "" THEN [status |-> q.err, ret |-> None]
            ELSE normalize_loop(knotvector, i + 1, first_knot, last_knot, Append(out, q.v))

knotvector_normalize(knotvector) ==
    IF Len(knotvector) = 0 THEN [status |-> "ok", ret |-> knotvector]
    ELSE normalize_loop(knotvector, 1, At(knotvector, 0), At(knotvector, Len(knotvector) - 1),
                        <<>>)

(***************************************************************************)
(* Specification of the utilities: one call on one drawn input             *)
(***************************************************************************)
MaxKnot == 3

\* knot vectors for the basis functions: even values, so that every odd value
\* is a parameter strictly inside a span
BasisEnd == 2 * MaxKnot

BasisInteriors(degree) ==
    UNION {{s \in [1..n -> {2 * i : i \in 1..(MaxKnot - 1)}] :
              IsSorted(s) /\ \A i \in 1..n : Count(s[i], s) <= Max2(degree, 1)} :
           n \in 0..MaxInterior}

BasisClamped(degree, interior) ==
    Rep(0, degree + 1) \o interior \o Rep(BasisEnd, degree + 1)

\* i is the span index of knot: knotvector[i] <= knot < knotvector[i+1], or the
\* last span for the knot that closes the domain
IsSpanIndex(degree, knotvector, i, knot) ==
    LET n == Len(knotvector) - degree - 2
    IN /\ degree <= i /\ i <= n
       /\ At(knotvector, i) <= knot
       /\ \/ knot < At(knotvector, i + 1)
          \/ i = n /\ knot = At(knotvector, n + 1)

UtilCall(name, a) ==
    /\ pc = "call"
    /\ op = name
    /\ args = a
    /\ heap = <<>>
    /\ old = <<>>
    /\ ret = <<>>
    /\ loc = <<>>

\* knot vectors for knotvector_normalize: every list of up to MaxKnot values
NormalizeInputs == UNION {[1..n -> 0..MaxKnot] : n \in 0..MaxKnot}

InitUtil ==
    \/ \E kv \in NormalizeInputs : UtilCall("knotvector_normalize", [knotvector |-> kv])
    \/ \E d \in 0..MaxDegree, n \in 0..(MaxDegree + MaxInterior + 1) :
         UtilCall("knotvector_autogen", [degree |-> d, num_ctrlpts |-> n])
    \/ \E d \in 0..MaxDegree : \E s \in BasisInteriors(d), knot \in 0..BasisEnd :
         \E i \in 0..(d + Len(s)) :
            /\ IsSpanIndex(d, BasisClamped(d, s), i, knot)
            /\ \/ UtilCall("basis_functions",
                            [degree |-> d, knotvector |-> BasisClamped(d, s), span |-> i,
                             knot |-> knot])
               \/ \E order \in 0..(MaxDegree + 1) :
                     UtilCall("basis_functions_ders",
                              [degree |-> d, knotvector |-> BasisClamped(d, s), span |-> i,
                               knot |-> knot, order |-> order])

KnotvectorAutogen ==
    /\ pc = "call" /\ op = "knotvector_autogen"
    /\ LET res == knotvector_autogen(args.degree, args.num_ctrlpts)
       IN /\ pc' = IF res.status = "ok" THEN "done" ELSE "raised"
          /\ ret' = res.ret
          /\ loc' = [status |-> res.status]
    /\ UNCHANGED <<op, args, heap, old>>

BasisFunctions ==
    /\ pc = "call" /\ op = "basis_functions"
    /\ ret' = basis_functions(args.degree, args.knotvector, args.span, args.knot)
    /\ pc' = "done"
    /\ UNCHANGED <<op, args, heap, old, loc>>

BasisFunctionsDers ==
    /\ pc = "call" /\ op = "basis_functions_ders"
    /\ LET res == basis_functions_ders(args.degree, args.knotvector, args.span, args.knot,
                                       args.order)
       IN /\ pc' = IF res.status = "ok" THEN "done" ELSE "raised"
          /\ ret' = res.ret
          /\ loc' = [status |-> res.status, negative |-> res.negative,
                     reads_a |-> res.reads_a, reads_ndu |-> res.reads_ndu]
    /\ UNCHANGED <<op, args, heap, old>>

KnotvectorNormalize ==
    /\ pc = "call" /\ op = "knotvector_normalize"
    /\ LET res == knotvector_normalize(args.knotvector)
       IN /\ pc' = IF res.status = "ok" THEN "done" ELSE "raised"
          /\ ret' = res.ret
          /\ loc' = [status |-> res.status]
    /\ UNCHANGED <<op, args, heap, old>>

NextUtil == KnotvectorAutogen \/ BasisFunctions \/ BasisFunctionsDers \/ KnotvectorNormalize

SpecUtil == InitUtil /\ [][NextUtil]_vars

(***************************************************************************)
(* Claims about the utilities (specification SpecUtil)                     *)
(***************************************************************************)
\* the clamped uniform knot vector: degree+1 zeros, the interior knots
\* j / (count + 1) for j = 1..count, degree+1 ones
IsClampedUniform(kv, degree, num_ctrlpts) ==
    LET count == num_ctrlpts - degree - 1
    IN /\ Len(kv) = degree + num_ctrlpts + 1
       /\ \A i \in 1..(degree + 1) : kv[i] = <<0, 1>>
       /\ \A j \in 1..count :
            /\ kv[degree + 1 + j] = Rat(j, count + 1)
            /\ RLess(<<0, 1>>, kv[degree + 1 + j]) /\ RLess(kv[degree + 1 + j], <<1, 1>>)
       /\ \A i \in (degree + count + 2)..(2 * degree + count + 2) : kv[i] = <<1, 1>>
       /\ \A i \in 1..(Len(kv) - 1) : ~RLess(kv[i + 1], kv[i])

AutogenRejectsZero ==
    args.degree = 0 \/ args.num_ctrlpts = 0 => pc = "raised" /\ loc.status = "ValueError"

\* C9 as stated: for every degree >= 1 and num_ctrlpts >= 1 knotvector_autogen
\* returns the clamped uniform knot vector of length degree + num_ctrlpts + 1,
\* and it raises ValueError when degree or num_ctrlpts is 0.
C9_AutogenEveryCount ==
    op = "knotvector_autogen" /\ pc # "call" =>
        /\ AutogenRejectsZero
        /\ args.degree >= 1 /\ args.num_ctrlpts >= 1 =>
             pc = "done" /\ IsClampedUniform(ret, args.degree, args.num_ctrlpts)

\* C9 amended: the same for every degree >= 1 and num_ctrlpts >= degree + 1.
C9_AutogenClampedUniform ==
    op = "knotvector_autogen" /\ pc # "call" =>
        /\ AutogenRejectsZero
        /\ args.degree >= 1 /\ args.num_ctrlpts >= args.degree + 1 =>
             pc = "done" /\ IsClampedUniform(ret, args.degree, args.num_ctrlpts)

C9_Witness ==
    /\ op = "knotvector_autogen" /\ pc = "done"
    /\ args.degree = 2 /\ args.num_ctrlpts = 5
    /\ ret = <<RInt(0), RInt(0), RInt(0), <<1, 3>>, <<2, 3>>, RInt(1), RInt(1), RInt(1)>>

\* C10: for a knot of the domain and its span index, the degree+1 values
\* basis_functions returns are all non-negative and sum to exactly 1.
C10_BasisPartitionOfUnity ==
    op = "basis_functions" /\ pc = "done" =>
        /\ DOMAIN ret = 0..args.degree
        /\ \A j \in 0..args.degree : ret[j] # None /\ ret[j][1] >= 0 /\ ret[j][2] > 0
        /\ RSum(ret, 0, args.degree) = <<1, 1>>

C10_Witness ==
    /\ op = "basis_functions" /\ pc = "done"
    /\ args.degree = MaxDegree
    /\ \A j \in 0..args.degree : ret[j][1] > 0 /\ ret[j][1] < ret[j][2]
    /\ \E i, j \in 0..args.degree : ret[i] # ret[j]

\* C11: with order = 0, row 0 of what basis_functions_ders returns equals what
\* basis_functions returns for the same degree, knot vector, span and knot,
\* element by element
C11_DersRowZeroIsBasis ==
    (pc = "done" /\ op = "basis_functions_ders" /\ args.order = 0) =>
        LET N == basis_functions(args.degree, args.knotvector, args.span, args.knot)
        IN /\ DOMAIN ret = {0}
           /\ \A j \in 0..args.degree : ret[0][j] = N[j]

C11_Witness ==
    /\ pc = "done" /\ op = "basis_functions_ders" /\ args.order = 0
    /\ args.degree >= 2
    /\ \E j \in 0..args.degree : ret[0][j] \notin {RInt(0), RInt(1)}

\* C12: a call of basis_functions_ders with order > degree completes and
\* returns order + 1 rows, every row k > degree all zeros
C12_DersBeyondDegree ==
    (op = "basis_functions_ders" /\ pc # "call" /\ args.order > args.degree) =>
        /\ pc = "done"
        /\ DOMAIN ret = 0..args.order
        /\ \A k \in (args.degree + 1)..args.order :
              \A j \in 0..args.degree : ret[k][j] = RInt(0)

\* the result of a normalisation: same length, from 0.0 to 1.0, order kept
IsNormalized(kv, out) ==
    /\ Len(out) = Len(kv)
    /\ out[1] = RInt(0)
    /\ out[Len(out)] = RInt(1)
    /\ \A i, j \in 1..Len(kv) :
          /\ kv[i] < kv[j] => RLess(out[i], out[j])
          /\ kv[i] = kv[j] => out[i] = out[j]

\* C17 as stated: knotvector_normalize returns the empty input unchanged and,
\* for every non-empty non-decreasing knot vector, its first and last values
\* equal or not, returns without raising a vector of the same length from 0.0
\* to 1.0 with the order kept
C17_NormalizeEveryVector ==
    (op = "knotvector_normalize" /\ pc # "call" /\ IsSorted(args.knotvector)) =>
        /\ pc = "done"
        /\ IF Len(args.knotvector) = 0 THEN ret = args.knotvector
           ELSE IsNormalized(args.knotvector, ret)

\* C17 amended: the empty input is returned unchanged; a non-empty
\* non-decreasing knot vector whose first and last values differ is returned
\* rescaled (same length, first 0.0, last 1.0, order kept) without raising;
\* one whose first and last values are equal raises ZeroDivisionError
C17_NormalizeAffine ==
    (op = "knotvector_normalize" /\ pc # "call" /\ IsSorted(args.knotvector)) =>
        LET kv == args.knotvector
        IN IF Len(kv) = 0 THEN pc = "done" /\ ret = kv
           ELSE IF kv[1] = kv[Len(kv)] THEN pc = "raised" /\ loc.status = "ZeroDivisionError"
           ELSE pc = "done" /\ IsNormalized(kv, ret)

C17_Witness ==
    /\ op = "knotvector_normalize" /\ pc = "done"
    /\ Len(args.knotvector) = MaxKnot
    /\ args.knotvector[1] > 0
    /\ \E i \in 1..Len(ret) : ret[i] \notin {RInt(0), RInt(1)}

(***************************************************************************)
(* src/geomdl/operations.py: shapes with coordinates                       *)
(*                                                                         *)
(* A control point is the list of its coordinates.  A shape of this part   *)
(* also carries its rational flag; its dimension is the length of its      *)
(* control points.  Angles are whole quarter turns, whose cosine and sine  *)
(* are exact.                                                              *)
(***************************************************************************)
Rational(shape, flag) == shape @@ [rational |-> flag]

dimension(shape) ==
    IF shape.kind = "curve" THEN Len(shape.ctrlpts[1]) ELSE Len(shape.ctrlpts2d[1][1])

\* kwargs.get(key, default)
Get(kwargs, key, default) == IF key \in DOMAIN kwargs THEN kwargs[key] ELSE default

\* a keyword argument: left out, or given one of the values
Kwarg(key, values) == {[k \in {} |-> FALSE]} \cup {key :> v : v \in values}

\* math.cos(math.radians(alpha)) and math.sin(math.radians(alpha))
Cos(alpha) == CASE alpha % 360 = 0 -> 1
                [] alpha % 360 = 90 -> 0
                [] alpha % 360 = 180 -> -1
                [] alpha % 360 = 270 -> 0

Sin(alpha) == CASE alpha % 360 = 0 -> 0
                [] alpha % 360 = 90 -> 1
                [] alpha % 360 = 180 -> 0
                [] alpha % 360 = 270 -> -1

\* the point of the shape at parameter 0: the first control point of a
\* clamped curve
evaluate_single_zero(shape) == shape.ctrlpts[1]

\* linalg.vector_generate(start_pt, end_pt): the vector from start to end
vector_generate(start_pt, end_pt) == [i \in 1..Len(start_pt) |-> end_pt[i] - start_pt[i]]

\* _operations.translate_single: vec added to every control point, of the
\* shape itself with inplace and of a deep copy without
translate(h, obj, vec, inplace) ==
    LET new_ctrlpts == [i \in 1..Len(h[obj].ctrlpts) |->
                          [k \in 1..Len(h[obj].ctrlpts[i]) |-> h[obj].ctrlpts[i][k] + vec[k]]]
        target == IF inplace THEN [heap |-> h, ref |-> obj] ELSE deepcopy(h, obj)
    IN [heap |-> [target.heap EXCEPT ![target.ref].ctrlpts = new_ctrlpts], ref |-> target.ref]

\* rotate_x, rotate_y, rotate_z: a and b are the positions of the two
\* coordinates the rotation changes
rotate_about(h, ncs, opt, alpha, a, b) ==
    LET translate_vector == vector_generate(opt, [i \in 1..dimension(h[ncs]) |-> 0])
        h1 == translate(h, ncs, translate_vector, TRUE).heap
        new_ctrlpts ==
            [idx \in 1..Len(h1[ncs].ctrlpts) |->
                LET pt == h1[ncs].ctrlpts[idx]
                IN [pt EXCEPT ![a] = (pt[a] * Cos(alpha)) - (pt[b] * Sin(alpha)),
                              ![b] = (pt[b] * Cos(alpha)) + (pt[a] * Sin(alpha))]]
        h2 == [h1 EXCEPT ![ncs].ctrlpts = new_ctrlpts]
    IN translate(h2, ncs, [i \in 1..Len(opt) |-> -opt[i]], FALSE).heap

rotate_x(h, ncs, opt, alpha) == rotate_about(h, ncs, opt, alpha, 2, 3)

rotate_y(h, ncs, opt, alpha) == rotate_about(h, ncs, opt, alpha, 1, 3)

rotate_z(h, ncs, opt, alpha) == rotate_about(h, ncs, opt, alpha, 1, 2)

working_object_input(h, obj, inplace) == [heap |-> h, ref |-> obj]

\* _obj: the input with inplace, a deep copy of it without
working_object(h, obj, inplace) == IF inplace THEN [heap |-> h, ref |-> obj] ELSE deepcopy(h, obj)

rotate(h, obj, angle, kwargs) ==
    LET origin == evaluate_single_zero(h[obj])
        axis == IF dimension(h[obj]) = 2 THEN 2 ELSE Get(kwargs, "axis", 2)
        inplace == Get(kwargs, "inplace", FALSE)
        w == working_object(h, obj, inplace)
    IN IF axis \notin {0, 1, 2}
       THEN Raised(w.heap, "ValueError", [at |-> "axis"])
       ELSE [status |-> "ok",
             heap |-> CASE axis = 0 -> rotate_x(w.heap, w.ref, origin, angle)
                        [] axis = 1 -> rotate_y(w.heap, w.ref, origin, angle)
                        [] axis = 2 -> rotate_z(w.heap, w.ref, origin, angle),
             ret |-> <<w.ref>>,
             frame |-> [at |-> "return", origin |-> origin, axis |-> axis]]

add_dimension(h, obj, kwargs) ==
    LET inplace == Get(kwargs, "inplace", FALSE)
        offset_value == Get(kwargs, "offset", 0)
        new_ctrlpts == [idx \in 1..Len(h[obj].ctrlpts) |->
                          Append(PySlice(h[obj].ctrlpts[idx], 0, dimension(h[obj])), offset_value)]
    IN IF inplace
       THEN [status |-> "ok", heap |-> [h EXCEPT ![obj].ctrlpts = new_ctrlpts], ret |-> <<obj>>,
             frame |-> [at |-> "return"]]
       ELSE LET cp == deepcopy(h, obj)
            IN [status |-> "ok", heap |-> [cp.heap EXCEPT ![cp.ref].ctrlpts = new_ctrlpts],
                ret |-> <<cp.ref>>, frame |-> [at |-> "return"]]

\* surf.__class__(): a fresh surface of the class of surf, nothing set yet
new_instance(h, obj) ==
    [heap |-> Append(h, Rational(Surface(0, 0, <<>>, <<>>, <<>>), h[obj].rational)),
     ref |-> Len(h) + 1]

transpose(h, surf, kwargs) ==
    LET inplace == Get(kwargs, "inplace", FALSE)
        s == h[surf]
        ctrlpts2d_new == [v \in 1..ctrlpts_size_v(s) |->
                            [u \in 1..ctrlpts_size_u(s) |-> s.ctrlpts2d[u][v]]]
        surf_t == IF inplace THEN [heap |-> h, ref |-> surf] ELSE new_instance(h, surf)
    IN [status |-> "ok",
        heap |-> [surf_t.heap EXCEPT ![surf_t.ref] =
                     [@ EXCEPT !.degree_u = s.degree_v, !.degree_v = s.degree_u,
                               !.ctrlpts2d = ctrlpts2d_new,
                               !.knotvector_u = s.knotvector_v, !.knotvector_v = s.knotvector_u]],
        ret |-> <<surf_t.ref>>,
        frame |-> [at |-> "return"]]

(***************************************************************************)
(* derivative_curve and derivative_surface.  The control points of the     *)
(* derivative come from the evaluators, outside src/: every table pkl[k][l]*)
(* keeps the size of the input, the entries past the last difference left  *)
(* as points of None.                                                      *)
(***************************************************************************)
hodograph_always(shape) == FALSE

\* obj.rational: the shapes whose hodograph is not computed
hodograph_unsupported(shape) == shape.rational

\* tmp * (elem1 - elem2) / (knotvector[hi] - knotvector[lo]), coordinate by
\* coordinate
difference_point(degree, pt1, pt2, knotvector, hi, lo) ==
    [c \in 1..Len(pt1) |->
        RDiv(RMul(RInt(degree), RSub(pt1[c], pt2[c])),
             RInt(At(knotvector, hi) - At(knotvector, lo)))]

float_point(pt) == [c \in 1..Len(pt) |-> RInt(pt[c])]

none_point(pt) == [c \in 1..Len(pt) |-> None]

\* CurveEvaluator2.derivatives_ctrlpts(...)[1]
derivatives_ctrlpts(degree, knotvector, ctrlpts) ==
    [i \in 1..Len(ctrlpts) |->
        IF i < Len(ctrlpts)
        THEN difference_point(degree, float_point(ctrlpts[i + 1]), float_point(ctrlpts[i]),
                              knotvector, (i - 1) + degree + 1, (i - 1) + 1)
        ELSE none_point(ctrlpts[i])]

\* the differences of a grid along u: each row against the next
derivatives_ctrlpts_u(degree_u, knotvector_u, grid) ==
    [i \in 1..Len(grid) |->
        [j \in 1..Len(grid[i]) |->
            IF i < Len(grid) /\ None \notin Distinct(grid[i][j]) /\ None \notin Distinct(grid[i + 1][j])
            THEN difference_point(degree_u, grid[i + 1][j], grid[i][j],
                                  knotvector_u, (i - 1) + degree_u + 1, (i - 1) + 1)
            ELSE none_point(grid[i][j])]]

\* the differences of a grid along v: each column against the next
derivatives_ctrlpts_v(degree_v, knotvector_v, grid) ==
    [i \in 1..Len(grid) |->
        [j \in 1..Len(grid[i]) |->
            IF j < Len(grid[i]) /\ None \notin Distinct(grid[i][j]) /\ None \notin Distinct(grid[i][j + 1])
            THEN difference_point(degree_v, grid[i][j + 1], grid[i][j],
                                  knotvector_v, (j - 1) + degree_v + 1, (j - 1) + 1)
            ELSE none_point(grid[i][j])]]

derivative_curve(h, obj) ==
    IF hodograph_unsupported(h[obj])
    THEN [status |-> "ok", heap |-> h, ret |-> <<obj>>,
          frame |-> [at |-> "return",
                     warnings |-> <<"Cannot compute hodograph curve for a rational curve">>]]
    ELSE LET c == h[obj]
             pkl1 == derivatives_ctrlpts(c.degree, c.knotvector, c.ctrlpts)
             curve == Rational(Curve(c.degree - 1, PySlice(c.knotvector, 1, -1),
                                     PySlice(pkl1, 0, -1)),
                               c.rational)
         IN [status |-> "ok", heap |-> Append(h, curve), ret |-> <<Len(h) + 1>>,
             frame |-> [at |-> "return", warnings |-> <<>>]]

derivative_surface(h, obj) ==
    IF hodograph_unsupported(h[obj])
    THEN [status |-> "ok", heap |-> h, ret |-> <<obj>>,
          frame |-> [at |-> "return",
                     warnings |-> <<"Cannot compute hodograph surface for a rational surface">>]]
    ELSE LET s == h[obj]
             pkl00 == [i \in 1..Len(s.ctrlpts2d) |->
                         [j \in 1..Len(s.ctrlpts2d[i]) |-> float_point(s.ctrlpts2d[i][j])]]
             pkl10 == derivatives_ctrlpts_u(s.degree_u, s.knotvector_u, pkl00)
             pkl01 == derivatives_ctrlpts_v(s.degree_v, s.knotvector_v, pkl00)
             pkl11 == derivatives_ctrlpts_v(s.degree_v, s.knotvector_v, pkl10)
             ctrlpts2d_u == PySlice(pkl10, 0, -1)
             ctrlpts2d_v == [i \in 1..Len(pkl01) |-> PySlice(pkl01[i], 0, -1)]
             ctrlpts2d_uv == [i \in 1..(Len(pkl11) - 1) |-> PySlice(pkl11[i], 0, -1)]
             surf_u == [s EXCEPT !.degree_u = s.degree_u - 1,
                                 !.ctrlpts2d = ctrlpts2d_u,
                                 !.knotvector_u = PySlice(s.knotvector_u, 1, -1)]
             surf_v == [s EXCEPT !.degree_v = s.degree_v - 1,
                                 !.ctrlpts2d = ctrlpts2d_v,
                                 !.knotvector_v = PySlice(s.knotvector_v, 1, -1)]
             surf_uv == Rational(Surface(s.degree_u - 1, s.degree_v - 1,
                                         PySlice(s.knotvector_u, 1, -1),
                                         PySlice(s.knotvector_v, 1, -1),
                                         ctrlpts2d_uv),
                                 s.rational)
         IN [status |-> "ok", heap |-> h \o <<surf_u, surf_v, surf_uv>>,
             ret |-> <<Len(h) + 1, Len(h) + 2, Len(h) + 3>>,
             frame |-> [at |-> "return", warnings |-> <<>>]]

(***************************************************************************)
(* Specification of the shape operations: one call on one drawn shape      *)
(***************************************************************************)
MaxStart == 1

\* quarter turns, a full turn and a turn backwards
Angles == {90 * q : q \in -1..4}

ShapeInteriors(degree) == {s \in BasisInteriors(degree) : Len(s) <= MaxCross}

\* control point i of a drawn curve: a parabola from the start point
curve_point(start, i) ==
    [k \in 1..Len(start) |-> start[k] + (IF k = 2 THEN (i - 1) * (i - 1) ELSE i - 1)]

\* control point (i, j) of a drawn surface
surface_point(start, i, j) ==
    [k \in 1..Len(start) |->
        start[k] + (CASE k = 1 -> i - 1 [] k = 2 -> j - 1 [] OTHER -> (i - 1) * (j - 1))]

Starts(dim) == {Rep(v, dim) : v \in 0..MaxStart}

ShapeCurves ==
    UNION {{Rational(Curve(d, BasisClamped(d, s),
                           [i \in 1..(d + 1 + Len(s)) |-> curve_point(start, i)]), rational) :
              s \in ShapeInteriors(d), start \in Starts(2) \cup Starts(3), rational \in BOOLEAN} :
           d \in Degrees}

ShapeSurfaces ==
    UNION {{Rational(Surface(d, e, BasisClamped(d, s), BasisClamped(e, x),
                             [i \in 1..(d + 1 + Len(s)) |->
                                [j \in 1..(e + 1 + Len(x)) |-> surface_point(start, i, j)]]),
                     rational) :
              s \in ShapeInteriors(d), x \in ShapeInteriors(e), start \in Starts(3),
              rational \in BOOLEAN} :
           d \in CrossDegrees, e \in Degrees}

InitShape ==
    \/ \E c \in ShapeCurves : Call("derivative_curve", c, [obj |-> 1])
    \/ \E sf \in ShapeSurfaces : Call("derivative_surface", sf, [obj |-> 1])
    \/ \E c \in ShapeCurves, angle \in Angles :
         \E axis \in Kwarg("axis", 0..3), inplace \in Kwarg("inplace", BOOLEAN) :
            Call("rotate", c, [obj |-> 1, angle |-> angle, kwargs |-> axis @@ inplace])
    \/ \E c \in ShapeCurves :
         \E offset \in Kwarg("offset", {MaxStart + 1}), inplace \in Kwarg("inplace", BOOLEAN) :
            Call("add_dimension", c, [obj |-> 1, kwargs |-> offset @@ inplace])
    \/ \E sf \in ShapeSurfaces : \E inplace \in Kwarg("inplace", BOOLEAN) :
         Call("transpose", sf, [obj |-> 1, kwargs |-> inplace])

DerivativeCurve ==
    /\ pc = "call" /\ op = "derivative_curve"
    /\ Return(derivative_curve(heap, args.obj))

DerivativeSurface ==
    /\ pc = "call" /\ op = "derivative_surface"
    /\ Return(derivative_surface(heap, args.obj))

Rotate ==
    /\ pc = "call" /\ op = "rotate"
    /\ Return(rotate(heap, args.obj, args.angle, args.kwargs))

AddDimension ==
    /\ pc = "call" /\ op = "add_dimension"
    /\ Return(add_dimension(heap, args.obj, args.kwargs))

Transpose ==
    /\ pc = "call" /\ op = "transpose"
    /\ Return(transpose(heap, args.obj, args.kwargs))

NextShape == DerivativeCurve \/ DerivativeSurface \/ Rotate \/ AddDimension \/ Transpose

SpecShape == InitShape /\ [][NextShape]_vars

(***************************************************************************)
(* Claims about the shape operations (specification SpecShape)             *)
(***************************************************************************)
\* the positions of the two coordinates a rotation about the axis changes
RotatedPair(axis) == CASE axis = 0 -> <<2, 3>> [] axis = 1 -> <<1, 3>> [] axis = 2 -> <<1, 2>>

\* p0 + R(c - p0), R the rotation by alpha of the coordinates at a and b
AboutPoint(c, p0, alpha, a, b) ==
    [k \in 1..Len(c) |->
        CASE k = a -> p0[a] + ((c[a] - p0[a]) * Cos(alpha)) - ((c[b] - p0[b]) * Sin(alpha))
          [] k = b -> p0[b] + ((c[b] - p0[b]) * Cos(alpha)) + ((c[a] - p0[a]) * Sin(alpha))
          [] OTHER -> c[k]]

\* C13: with p0 the point of the input at parameter 0, every control point of
\* what rotate returns is p0 + R(c - p0) for the control point c of the input
\* at its position; a rotation by 0 or by 360 degrees returns control points
\* equal to the original ones, wherever p0 is
C13_RotateAboutStartPoint ==
    Returned("rotate") =>
        LET before == old[args.obj].ctrlpts
            after == heap[ret[1]].ctrlpts
            p0 == before[1]
            pair == RotatedPair(loc.axis)
        IN /\ Len(after) = Len(before)
           /\ \A i \in 1..Len(before) :
                 after[i] = AboutPoint(before[i], p0, args.angle, pair[1], pair[2])
           /\ args.angle % 360 = 0 => after = before

WithoutInplace ==
    LET kwargs == [k \in DOMAIN args.kwargs \ {"inplace"} |-> args.kwargs[k]]
        res == CASE op = "rotate" -> rotate(old, args.obj, args.angle, kwargs)
                 [] op = "add_dimension" -> add_dimension(old, args.obj, kwargs)
                 [] op = "transpose" -> transpose(old, args.obj, kwargs)
    IN res.heap[res.ret[1]]

\* C16: rotate, transpose and add_dimension called without inplace, or with
\* inplace=False, return an object distinct from the input and leave the
\* input unchanged; called with inplace=True they make the same change to the
\* input and return that same object
C16_InplaceContract ==
    (op \in {"rotate", "transpose", "add_dimension"} /\ pc = "done") =>
        IF Get(args.kwargs, "inplace", FALSE)
        THEN /\ ret = <<args.obj>>
             /\ heap[args.obj] = WithoutInplace
        ELSE /\ Len(ret) = 1 /\ ret[1] # args.obj
             /\ ret[1] \in (Len(old) + 1)..Len(heap)
             /\ heap[args.obj] = old[args.obj]
             /\ heap[ret[1]] = WithoutInplace

C16_Witness ==
    /\ Returned("add_dimension")
    /\ Get(args.kwargs, "inplace", FALSE)
    /\ ret = <<args.obj>>
    /\ dimension(heap[args.obj]) = dimension(old[args.obj]) + 1

(***************************************************************************)
(* Claim about the indexing of basis_functions_ders (specification         *)
(* SpecUtil)                                                               *)
(***************************************************************************)
\* C21: a call of basis_functions_ders with 0 <= order <= degree on a valid
\* span raises no IndexError, uses no negative index and reads no None (no
\* TypeError, no None in what it returns); in the derivative loop every
\* divisor ndu[i][j] lies below the diagonal, every factor ndu[i][j] on or
\* above it, and every a[s1][j] read was written in the pass before for the
\* same r
C21_DersIndexing ==
    (op = "basis_functions_ders" /\ pc # "call" /\ args.order <= args.degree) =>
        /\ pc = "done"
        /\ loc.status = "ok"
        /\ ~loc.negative
        /\ DOMAIN ret = 0..args.order
        /\ \A k \in 0..args.order : \A j \in 0..args.degree : ret[k][j] # None
        /\ \A e \in loc.reads_ndu :
              /\ e.use = "divisor" => 0 <= e.j /\ e.j < e.i /\ e.i <= args.degree
              /\ e.use = "factor" => 0 <= e.i /\ e.i <= e.j /\ e.j <= args.degree
        /\ \A e \in loc.reads_a :
              /\ e.i \in {0, 1} /\ 0 <= e.j /\ e.j <= args.degree
              /\ e.by = <<e.pass[1] + 1, e.pass[2] + 1>>

\* a call of the highest degree and order: the j loop has read a[s1][j] and
\* a[s1][j-1] in a pass k >= 2, and both triangles of ndu have been read
C21_Witness ==
    /\ op = "basis_functions_ders" /\ pc = "done"
    /\ args.degree = MaxDegree /\ args.order = MaxDegree
    /\ \E e, f \in loc.reads_a :
          /\ e.pass = f.pass /\ e.pass[2] <= args.degree - 2
          /\ e.j >= 1 /\ f.j = e.j - 1 /\ e.j < args.degree - e.pass[2]
    /\ \E e, f \in loc.reads_ndu : e.use = "divisor" /\ f.use = "factor" /\ f.i < f.j

====
